---- MODULE Spec2Model ----
(***************************************************************************)
(* Generation resilience layer of longcut: provider registry and fallback  *)
(* orchestrator (lib/ai-providers/registry.ts), the Claude adapter         *)
(* (lib/ai-providers/claude-adapter.ts) and the Gemini adapter             *)
(* (lib/ai-providers/gemini-adapter.ts).                                   *)
(*                                                                         *)
(* One generateStructuredContent call is followed from its start to its    *)
(* return or throw.  A step of the model is the code that runs between two *)
(* awaits: the start of the call up to the first backend request, and the  *)
(* handling of one backend outcome up to the next backend request or to    *)
(* the end of the call.                                                    *)
(*                                                                         *)
(* Error messages are modelled by the set of searched-for substrings       *)
(* ("needles") that occur in the lower-cased message; every classifier of  *)
(* the source is a disjunction of substring tests on the message (and, in  *)
(* the Gemini adapter, of tests on error.status).                          *)
(*                                                                         *)
(* Three more subsystems have specifications of their own over variables  *)
(* of their own: the batch dispatcher of the translate route (SpecBatch),  *)
(* the handlers' treatment of the model's raw text and of a failed         *)
(* generation in the summary, chat and image routes (SpecRecovery), and    *)
(* the conversion of schemas for the backends (SpecSchema).  Raw texts are *)
(* modelled by their structure: the kinds of their array elements, their   *)
(* layout, fences and truncation.  SpecFair is Spec with every backend     *)
(* request eventually returning or failing.                                *)
(***************************************************************************)
EXTENDS Integers, Sequences, FiniteSets, TLC

VARIABLES
    env,            \* process.env: XAI_API_KEY, GEMINI_API_KEY set?, AI_PROVIDER
    providerCache,  \* registry.ts providerCache: the adapter cached for each key
    factoryCalls,   \* history: how often each key's factory has been called
    provided,       \* what the latest getProvider call returned or threw
    pc,             \* "idle" | "primary" | "fallback" | "done"
    req,            \* generateStructuredContent: rest (params without provider)
    primaryKey,     \* generateStructuredContent: primaryKey
    fallbackKey,    \* generateStructuredContent: fallbackKey ("none" = null)
    currentModel,   \* model of the backend request in flight
    models,         \* Gemini generate: models (result of buildModelList)
    lastError,      \* Gemini generate: lastError
    attempts,       \* backend requests made by this call, in order
    lastSig,        \* how the latest backend request ended ("pending" while in flight)
    invoked,        \* providers whose generate was invoked by this call, in order
    primaryError,   \* error caught from primaryAdapter.generate
    fallbackError,  \* error caught from the fallback attempt
    outcome,        \* what the call returned or threw
    lastReported,   \* the model name the latest backend response reported
    backendCalls    \* history: backend requests of this call that have neither
                    \* ended nor been aborted when the call moves on

vars == <<env, providerCache, factoryCalls, provided, pc, req, primaryKey, fallbackKey, currentModel,
          models, lastError, attempts, lastSig, invoked, primaryError, fallbackError,
          outcome, lastReported, backendCalls>>

\* Translate route (app/api/translate/route.ts): the batch dispatcher
VARIABLES
    bphase,         \* handler: "idle" | "running" | "responded"
    nTexts,         \* texts.length
    results,        \* results: the output array (Hole = an empty slot)
    index,          \* index: the shared chunk-claim counter
    workers,        \* per worker: where it is in worker() and its myIndex
    response,       \* the NextResponse the handler returned
    claimLog,       \* history: the chunk indices claimed, in order
    doneLog,        \* history: the chunk indices whose results were written, in order
    failLog,        \* history: the failures of translateBatch, in order
    inFlight,       \* the translateBatch calls not settled yet: <<worker, chunk index>>
    wellFormed      \* history: every translateBatch result had one item per input

batchVars == <<bphase, nTexts, results, index, workers, response, claimLog, doneLog,
               failLog, inFlight, wellFormed>>

NoResponse == [status |-> 0, kind |-> "none", translations |-> <<>>, error |-> "none"]

BatchInit ==
    /\ bphase = "idle"
    /\ nTexts = 0
    /\ results = <<>>
    /\ index = 0
    /\ workers = <<>>
    /\ response = NoResponse
    /\ claimLog = <<>>
    /\ doneLog = <<>>
    /\ failLog = <<>>
    /\ inFlight = {}
    /\ wellFormed = TRUE

\* Summary route (app/api/generate-summary/route.ts) and chat route
\* (app/api/chat/route.ts): parsing the model's raw text
VARIABLES
    rpc,            \* handler: "idle" | "awaiting" (the generation) | "responded"
    route,          \* which handler runs: "summary" | "chat" | "image" ("none" when idle)
    raw,            \* response: the raw text generateAIResponse resolved to
    stageLog,       \* history: the parse stages run, in order, and whether each
                    \* yielded schema-valid data
    partial,        \* history: what recoverPartialTakeaways did, if it was called
    recovered,      \* takeaways / parsedResponse: the value the handler accepted
    reply,          \* the NextResponse the handler returned
    genCalls,       \* history: the generation calls this invocation placed
    genError        \* history: the error the generation call rejected with

recoveryVars == <<rpc, route, raw, stageLog, partial, recovered, reply, genCalls, genError>>

NoRaw == [form |-> "none"]

NoPartial == [called |-> FALSE, ok |-> FALSE, value |-> <<>>, stage |-> "none",
              decoded |-> <<>>, matched |-> <<>>]

NoValue == [kind |-> "none", takeaways |-> <<>>]

\* No part of an error message
NoDetails == [text |-> "none", msg |-> {}]

NoReply == [status |-> 0, kind |-> "none", fixed |-> "none", takeaways |-> <<>>,
            details |-> NoDetails]

RecoveryInit ==
    /\ rpc = "idle"
    /\ route = "none"
    /\ raw = NoRaw
    /\ stageLog = <<>>
    /\ partial = NoPartial
    /\ recovered = NoValue
    /\ reply = NoReply
    /\ genCalls = 0
    /\ genError = [src |-> "none", kind |-> "none", status |-> 0, msg |-> {},
                   text |-> "none"]    \* no error

\* Schema negotiation (convertToGeminiSchema, buildGenerationConfig, callClaude)
VARIABLES
    conversion      \* the latest conversion: the adapter, the zod schema it was
                    \* given, and what it put into the request or threw

schemaVars == <<conversion>>

NoConversion == [adapter |-> "none", zod |-> <<>>, threw |-> FALSE, schema |-> <<>>]

SchemaInit == conversion = NoConversion

\* The variables outside the provider registry
auxVars == <<batchVars, recoveryVars, schemaVars>>

AuxInit == BatchInit /\ RecoveryInit /\ SchemaInit

----------------------------------------------------------------------------
(* Small helpers on sequences *)

Range(s) == {s[i] : i \in 1..Len(s)}

\* Array.prototype.indexOf, 1-based; 0 when absent (JS: -1)
IndexOf(s, x) ==
    IF x \in Range(s) THEN CHOOSE i \in 1..Len(s) : s[i] = x /\ \A j \in 1..(i-1) : s[j] # x
    ELSE 0

\* Array.prototype.filter keeping the elements different from x
RECURSIVE FilterOut(_, _)
FilterOut(s, x) ==
    IF s = <<>> THEN <<>>
    ELSE IF Head(s) = x THEN FilterOut(Tail(s), x)
         ELSE <<Head(s)>> \o FilterOut(Tail(s), x)

----------------------------------------------------------------------------
(* Providers and model cascades *)

\* Object.keys(providerFactories), in insertion order
ProviderKeys == <<"grok", "gemini", "claude">>

ClaudeCascade == <<"claude-haiku-4-5-20251001", "claude-sonnet-4-6", "claude-opus-4-6">>

GeminiCascade == <<"gemini-2.5-flash-lite", "gemini-3-flash", "gemini-3-pro">>

\* The Grok adapter's ordered model list (section 3, ModelCascade)
GrokCascade == <<"grok-fast", "grok-standard", "grok-large">>

ModelCascade(key) ==
    CASE key = "claude" -> ClaudeCascade
      [] key = "gemini" -> GeminiCascade
      [] OTHER -> GrokCascade

----------------------------------------------------------------------------
(* Backend outcomes and error values *)

\* What one backend request can end in.  "ok" is a non-empty response,
\* "empty" an empty one, "Timeout" the expiry of the per-call deadline; the
\* others are errors reported by the backend.
BackendErrors == {"RateLimited", "ServiceUnavailable", "Overloaded", "BadGateway",
                  "GatewayTimeout", "AuthenticationFailed", "BadRequest"}

BackendSignals == {"ok", "empty", "Timeout"} \cup BackendErrors

\* error.status of a backend error (0 = undefined)
StatusOf(sig) ==
    CASE sig = "RateLimited" -> 429
      [] sig = "ServiceUnavailable" -> 503
      [] sig = "Overloaded" -> 529
      [] sig = "BadGateway" -> 502
      [] sig = "GatewayTimeout" -> 504
      [] sig = "AuthenticationFailed" -> 401
      [] sig = "BadRequest" -> 400
      [] OTHER -> 0

\* The needles occurring in the lower-cased message of a backend error:
\*   "429 ... rate_limit_error ... rate limit", "503 Service Unavailable",
\*   "529 Overloaded", "502 Bad Gateway", "504 Gateway Timeout",
\*   "401 Unauthorized", "400 Bad Request"
RawMessage(sig) ==
    CASE sig = "RateLimited" -> {"429", "rate_limit", "rate limit"}
      [] sig = "ServiceUnavailable" -> {"503", "service unavailable"}
      [] sig = "Overloaded" -> {"529", "overloaded", "overload"}
      [] sig = "BadGateway" -> {"502"}
      [] sig = "GatewayTimeout" -> {"504", "timeout"}
      [] sig = "AuthenticationFailed" -> {"unauthorized"}
      [] sig = "BadRequest" -> {"400"}
      [] OTHER -> {}

\* The needles occurring in the literal texts the source puts into messages
LiteralNeedles(text) ==
    CASE text = "overloaded" -> {"overloaded", "overload"}
      [] text = "rate limited" -> {"rate limit"}
      [] text = "timeout" -> {"timeout"}
      [] text = "Request timeout" -> {"timeout"}
      [] OTHER -> {}
      \* "authentication failed", "invalid request", "unknown error",
      \* "Unknown error", "Claude request timed out.",
      \* "Claude API returned an empty response.", "Gemini API error (",
      \* "All Gemini models failed. Last error type: ",
      \* "Failed to convert schema: ", "AI provider ... is not configured. ..."

\* message.includes(needle) / lowerMessage.includes(needle)
Includes(msg, needle) == needle \in msg

\* An error value: who raised it, the backend outcome it stems from, its
\* status property, its message, and the template of its message.
Err(src, kind, status, msg, text) ==
    [src |-> src, kind |-> kind, status |-> status, msg |-> msg, text |-> text]

NoError == Err("none", "none", 0, {}, "none")

\* The error a backend request fails with
BackendError(src, sig) == Err(src, sig, StatusOf(sig), RawMessage(sig), "backend")

Result(provider, model) == [provider |-> provider, model |-> model]

NoResult == Result("none", "none")

----------------------------------------------------------------------------
(* Claude adapter: claude-adapter.ts *)

\* Variant: PROVIDER_NAME carries another adapter's name
ClaudeProviderName_Gemini == "gemini"

ClaudeProviderName == "claude"

ClaudeIsRetryableError(error) ==
    /\ error # NoError
    /\ \/ Includes(error.msg, "429")
       \/ Includes(error.msg, "503")
       \/ Includes(error.msg, "529")
       \/ Includes(error.msg, "overloaded")
       \/ Includes(error.msg, "rate_limit")
       \/ Includes(error.msg, "service unavailable")

\* Variant: the cascade jumps to its last entry
getNextModel_Skips(current) ==
    LET idx == IndexOf(ClaudeCascade, current) IN
    IF idx < 1 \/ idx >= Len(ClaudeCascade) THEN "none"
    ELSE ClaudeCascade[Len(ClaudeCascade)]

\* Variant: after the last entry the cascade starts over
getNextModel_Wraps(current) ==
    LET idx == IndexOf(ClaudeCascade, current) IN
    IF idx < 1 THEN "none"
    ELSE IF idx >= Len(ClaudeCascade) THEN ClaudeCascade[1]
    ELSE ClaudeCascade[idx + 1]

\* "none" = null
getNextModel(current) ==
    LET idx == IndexOf(ClaudeCascade, current) IN
    IF idx < 1 \/ idx >= Len(ClaudeCascade) THEN "none"
    ELSE ClaudeCascade[idx + 1]

\* Variant: the result names the model the caller asked for
callClaude_RequestedModel(model, r, sig, resultModel) ==
    CASE sig = "ok" ->
           [threw |-> FALSE,
            result |-> Result(ClaudeProviderName,
                              IF r.model \in Range(ClaudeCascade) THEN r.model
                              ELSE ClaudeCascade[1]),
            error |-> NoError]
      [] sig = "empty" ->
           [threw |-> TRUE, result |-> NoResult,
            error |-> Err("claude", "empty", 0, {}, "Claude API returned an empty response.")]
      [] sig = "Timeout" ->
           [threw |-> TRUE, result |-> NoResult,
            error |-> Err("claude", "Timeout", 0, {}, "Claude request timed out.")]
      [] OTHER ->
           [threw |-> TRUE, result |-> NoResult, error |-> BackendError("claude", sig)]

\* callClaude: what one request on `model` ends in, given the backend outcome.
\* A failing zod-to-JSON-schema conversion is caught inside callClaude and
\* only drops options.outputFormat, so r.zodSchema does not change the flow.
\* resultModel is message.message?.model of the last assistant message
\* ("none" = undefined).
callClaude(model, r, sig, resultModel) ==
    CASE sig = "ok" ->
           [threw |-> FALSE,
            result |-> Result(ClaudeProviderName,
                              IF resultModel # "none" THEN resultModel ELSE model),
            error |-> NoError]
      [] sig = "empty" ->
           [threw |-> TRUE, result |-> NoResult,
            error |-> Err("claude", "empty", 0, {}, "Claude API returned an empty response.")]
      [] sig = "Timeout" ->
           [threw |-> TRUE, result |-> NoResult,
            error |-> Err("claude", "Timeout", 0, {}, "Claude request timed out.")]
      [] OTHER ->
           [threw |-> TRUE, result |-> NoResult, error |-> BackendError("claude", sig)]

\* createClaudeAdapter.generate, up to the first callClaude
ClaudeBegin(r) ==
    LET isClaudeModel == r.model # "none" /\ r.model \in Range(ClaudeCascade)
        startModel == IF isClaudeModel THEN r.model ELSE ClaudeCascade[1]
    IN [kind |-> "call", currentModel |-> startModel, models |-> <<>>,
        lastError |-> NoError, result |-> NoResult, error |-> NoError]

\* createClaudeAdapter.generate: one turn of the while loop after callClaude
\* on `cur` has ended in `sig`
ClaudeOnOutcome(cur, r, sig, resultModel) ==
    LET c == callClaude(cur, r, sig, resultModel)
        next == getNextModel(cur)
    IN IF ~c.threw
       THEN [kind |-> "return", currentModel |-> cur, models |-> <<>>,
             lastError |-> NoError, result |-> c.result, error |-> NoError]
       ELSE IF ClaudeIsRetryableError(c.error) /\ next # "none"
            THEN [kind |-> "call", currentModel |-> next, models |-> <<>>,
                  lastError |-> NoError, result |-> NoResult, error |-> NoError]
            ELSE [kind |-> "throw", currentModel |-> cur, models |-> <<>>,
                  lastError |-> NoError, result |-> NoResult, error |-> c.error]

----------------------------------------------------------------------------
(* Gemini adapter: gemini-adapter.ts *)

GeminiProviderName == "gemini"

isValidModel(model) == model # "none" /\ model \in Range(GeminiCascade)

\* Variant: every error advances the cascade
GeminiIsRetryableError_Any(error) == error # NoError

GeminiIsRetryableError(error) ==
    /\ error # NoError
    /\ \/ error.status = 503
       \/ error.status = 429
       \/ Includes(error.msg, "503")
       \/ Includes(error.msg, "429")
       \/ Includes(error.msg, "overload")
       \/ Includes(error.msg, "rate limit")

describeError(error) ==
    IF error = NoError THEN "unknown error"
    ELSE IF error.status = 503 \/ Includes(error.msg, "503") THEN "overloaded"
    ELSE IF error.status = 429 \/ Includes(error.msg, "rate limit") THEN "rate limited"
    ELSE IF error.status = 401 \/ Includes(error.msg, "unauthorized") THEN "authentication failed"
    ELSE IF error.status = 400 \/ Includes(error.msg, "400") THEN "invalid request"
    ELSE IF error.status = 408 \/ Includes(error.msg, "timeout") THEN "timeout"
    ELSE "unknown error"

\* Variant: the preferred model is ignored
buildModelList_IgnoresPreferred(model) == GeminiCascade

buildModelList(model) ==
    IF isValidModel(model) THEN <<model>> \o FilterOut(GeminiCascade, model)
    ELSE GeminiCascade

\* buildGenerationConfig: throws when the schema conversion throws
SchemaConversionError ==
    Err("gemini", "SchemaConversion", 0, {}, "Failed to convert schema: ")

\* generate, line 279: the error thrown for a non-retryable failure
GeminiApiError(error) ==
    Err("gemini", error.kind, 0,
        LiteralNeedles(describeError(error)) \cup error.msg, "Gemini API error (")

\* generate, line 293: the error thrown when the model list is exhausted
AllGeminiModelsFailed(lastErr) ==
    Err("gemini", IF lastErr = NoError THEN "empty" ELSE lastErr.kind, 0,
        LiteralNeedles(describeError(lastErr)) \cup lastErr.msg,
        "All Gemini models failed. Last error type: ")

\* The element after modelName in the list being iterated; "none" at the end
GeminiNext(mods, modelName) ==
    LET i == IndexOf(mods, modelName) IN
    IF i >= Len(mods) THEN "none" ELSE mods[i + 1]

\* One iteration of the for loop up to the await: buildGenerationConfig, then
\* the request.  The schema conversion is deterministic, so it throws in the
\* first iteration or never.
GeminiIterate(mods, modelName, lastErr, r) ==
    IF modelName = "none"
    THEN [kind |-> "throw", currentModel |-> "none", models |-> mods,
          lastError |-> lastErr, result |-> NoResult,
          error |-> AllGeminiModelsFailed(lastErr)]
    ELSE IF r.zodSchema = "throws"
    THEN [kind |-> "throw", currentModel |-> modelName, models |-> mods,
          lastError |-> SchemaConversionError, result |-> NoResult,
          error |-> GeminiApiError(SchemaConversionError)]
    ELSE [kind |-> "call", currentModel |-> modelName, models |-> mods,
          lastError |-> lastErr, result |-> NoResult, error |-> NoError]

\* createGeminiAdapter.generate, up to the first generateContent
GeminiBegin(r) ==
    LET mods == buildModelList(r.model) IN
    GeminiIterate(mods, mods[1], NoError, r)

\* The error the awaited request rejects with
GeminiRequestError(sig) ==
    IF sig = "Timeout" THEN Err("gemini", "Timeout", 0, LiteralNeedles("Request timeout"), "Request timeout")
    ELSE BackendError("gemini", sig)

\* createGeminiAdapter.generate: the rest of the iteration on modelName after
\* the request has ended in `sig`, and the start of the next iteration
GeminiOnOutcome(mods, modelName, lastErr, r, sig) ==
    IF sig = "ok"
    THEN [kind |-> "return", currentModel |-> modelName, models |-> mods,
          lastError |-> lastErr, result |-> Result(GeminiProviderName, modelName),
          error |-> NoError]
    ELSE IF sig = "empty"
    THEN GeminiIterate(mods, GeminiNext(mods, modelName), lastErr, r)
    ELSE LET error == GeminiRequestError(sig) IN
         IF ~GeminiIsRetryableError(error)
         THEN [kind |-> "throw", currentModel |-> modelName, models |-> mods,
               lastError |-> error, result |-> NoResult, error |-> GeminiApiError(error)]
         ELSE GeminiIterate(mods, GeminiNext(mods, modelName), error, r)

----------------------------------------------------------------------------
(* Grok adapter: the capability contract of section 4.1 *)

GrokProviderName == "grok"

\* Rate limiting, unavailability, overload, gateway errors and an empty
\* response advance the cascade; a deadline expiry does not.
GrokIsRetryableError(error) ==
    error.kind \in {"RateLimited", "ServiceUnavailable", "Overloaded",
                    "BadGateway", "GatewayTimeout", "empty"}

GrokRequestError(sig) ==
    CASE sig = "Timeout" -> Err("grok", "Timeout", 0, LiteralNeedles("timeout"), "timeout")
      [] sig = "empty" -> Err("grok", "empty", 0, {}, "EmptyResponse")
      [] OTHER -> BackendError("grok", sig)

GrokNextModel(current) ==
    LET idx == IndexOf(GrokCascade, current) IN
    IF idx < 1 \/ idx >= Len(GrokCascade) THEN "none" ELSE GrokCascade[idx + 1]

GrokBegin(r) ==
    [kind |-> "call",
     currentModel |-> IF r.model \in Range(GrokCascade) THEN r.model ELSE GrokCascade[1],
     models |-> <<>>, lastError |-> NoError, result |-> NoResult, error |-> NoError]

GrokOnOutcome(cur, r, sig) ==
    LET error == GrokRequestError(sig)
        next == GrokNextModel(cur)
    IN IF sig = "ok"
       THEN [kind |-> "return", currentModel |-> cur, models |-> <<>>,
             lastError |-> NoError, result |-> Result(GrokProviderName, cur), error |-> NoError]
       ELSE IF GrokIsRetryableError(error) /\ next # "none"
            THEN [kind |-> "call", currentModel |-> next, models |-> <<>>,
                  lastError |-> NoError, result |-> NoResult, error |-> NoError]
            ELSE [kind |-> "throw", currentModel |-> cur, models |-> <<>>,
                  lastError |-> NoError, result |-> NoResult, error |-> error]

----------------------------------------------------------------------------
(* ProviderAdapter.generate of the adapter registered under `key` *)

AdapterBegin(key, r) ==
    CASE key = "claude" -> ClaudeBegin(r)
      [] key = "gemini" -> GeminiBegin(r)
      [] OTHER -> GrokBegin(r)

AdapterOnOutcome(key, mods, cur, lastErr, r, sig, resultModel) ==
    CASE key = "claude" -> ClaudeOnOutcome(cur, r, sig, resultModel)
      [] key = "gemini" -> GeminiOnOutcome(mods, cur, lastErr, r, sig)
      [] OTHER -> GrokOnOutcome(cur, r, sig)

----------------------------------------------------------------------------
(* Registry and fallback orchestrator: registry.ts *)

\* The values a provider preference (per-call override, AI_PROVIDER) takes:
\* undefined, a registered key, or a name that is not registered
Preferences == {"none", "grok", "gemini", "claude", "openai"}

\* providerEnvGuards[key]() is truthy
providerEnvGuards(e, key) ==
    CASE key = "grok" -> e.XAI_API_KEY
      [] key = "gemini" -> e.GEMINI_API_KEY
      [] OTHER -> TRUE    \* process.env.ANTHROPIC_API_KEY || 'local-claude-code'

resolveProviderKey(e, preferred) ==
    LET envPreference == IF preferred # "none" THEN preferred ELSE e.AI_PROVIDER IN
    IF envPreference # "none" /\ envPreference \in Range(ProviderKeys) THEN envPreference
    ELSE IF providerEnvGuards(e, "grok") THEN "grok"
    ELSE IF providerEnvGuards(e, "gemini") THEN "gemini"
    ELSE IF providerEnvGuards(e, "claude") THEN "claude"
    ELSE "grok"

\* providerCache[key] is undefined
NoAdapter == [provider |-> "none", serial |-> 0]

\* providerFactories[key](): a new adapter object each time it is called
providerFactories(key) == [provider |-> key, serial |-> factoryCalls[key] + 1]

\* Variant: the cache is not consulted
ensureProvider_NoCacheCheck(e, cache, key) ==
    IF ~providerEnvGuards(e, key) THEN [threw |-> TRUE, cache |-> cache]
    ELSE [threw |-> FALSE, cache |-> [cache EXCEPT ![key] = providerFactories(key)]]

\* ensureProvider: does it throw "not configured", and the cache it leaves
ensureProvider(e, cache, key) ==
    IF cache[key] # NoAdapter THEN [threw |-> FALSE, cache |-> cache]
    ELSE IF ~providerEnvGuards(e, key) THEN [threw |-> TRUE, cache |-> cache]
    ELSE [threw |-> FALSE, cache |-> [cache EXCEPT ![key] = providerFactories(key)]]

\* The factory calls made so far, after the calls that left the cache `cache`
FactoryCallsAfter(cache) ==
    [key \in DOMAIN factoryCalls |->
        IF cache[key] # providerCache[key] THEN factoryCalls[key] + 1 ELSE factoryCalls[key]]

NotConfiguredError(key) == Err("registry", "NotConfigured", 0, {}, "AI provider is not configured")

RECURSIVE FilterConfigured(_, _)
FilterConfigured(e, keys) ==
    IF keys = <<>> THEN <<>>
    ELSE IF providerEnvGuards(e, Head(keys))
         THEN <<Head(keys)>> \o FilterConfigured(e, Tail(keys))
         ELSE FilterConfigured(e, Tail(keys))

availableProviders(e) == FilterConfigured(e, ProviderKeys)

\* Variant: client errors are classified as retryable too
isRetryableError_ClientErrors(error) ==
    /\ error # NoError
    /\ \/ Includes(error.msg, "service unavailable")
       \/ Includes(error.msg, "503")
       \/ Includes(error.msg, "502")
       \/ Includes(error.msg, "504")
       \/ Includes(error.msg, "timeout")
       \/ Includes(error.msg, "overload")
       \/ Includes(error.msg, "unauthorized")
       \/ Includes(error.msg, "400")

isRetryableError(error) ==
    /\ error # NoError
    /\ \/ Includes(error.msg, "service unavailable")
       \/ Includes(error.msg, "503")
       \/ Includes(error.msg, "502")
       \/ Includes(error.msg, "504")
       \/ Includes(error.msg, "timeout")
       \/ Includes(error.msg, "overload")

\* Variant: the current provider is not excluded
getFallbackProvider_NoExclusion(e, currentKey) ==
    LET available == availableProviders(e)
    IN IF available = <<>> THEN "none" ELSE available[1]

\* "none" = null
getFallbackProvider(e, currentKey) ==
    LET available == availableProviders(e)
        others == FilterOut(available, currentKey)
    IN IF others = <<>> THEN "none" ELSE others[1]

\* Variant: the fallback's error is thrown instead of the original one
ErrorAfterFallbackFailure_Fallback(error, fallbackErr) == fallbackErr

\* generateStructuredContent, line 129: what is thrown when the fallback
\* attempt failed too
ErrorAfterFallbackFailure(error, fallbackErr) == error

----------------------------------------------------------------------------
(* The state machine *)

\* AI_PROVIDER: unset, or the documented default
EnvPreferences == {"none", "gemini"}

Envs == [XAI_API_KEY : BOOLEAN, GEMINI_API_KEY : BOOLEAN, AI_PROVIDER : EnvPreferences]

\* params.model: absent, or a model name that is not the first of its cascade
RequestModels ==
    {"none", ClaudeCascade[2], ClaudeCascade[3], GeminiCascade[2], GeminiCascade[3]}

\* params.zodSchema: absent, convertible by z.toJSONSchema, or not convertible
SchemaKinds == {"none", "converts", "throws"}

\* ProviderGenerateParams, as far as the flow depends on them
Requests == [model : RequestModels, timeoutMs : BOOLEAN, zodSchema : SchemaKinds]

NoRequest == [model |-> "none", timeoutMs |-> FALSE, zodSchema |-> "none"]

\* getProvider has not been called, returned providerCache[key], or threw
NoProvided == [status |-> "none", asked |-> "none", key |-> "none", adapter |-> NoAdapter]

NoOutcome == [status |-> "none", result |-> NoResult, error |-> NoError]

Returned(result) == [status |-> "returned", result |-> result, error |-> NoError]

Threw(error) == [status |-> "threw", result |-> NoResult, error |-> error]

Attempt(key, model) == [provider |-> key, model |-> model]

Init ==
    /\ env \in Envs
    /\ providerCache = [key \in Range(ProviderKeys) |-> NoAdapter]
    /\ factoryCalls = [key \in Range(ProviderKeys) |-> 0]
    /\ provided = NoProvided
    /\ pc = "idle"
    /\ req = NoRequest
    /\ primaryKey = "none"
    /\ fallbackKey = "none"
    /\ currentModel = "none"
    /\ models = <<>>
    /\ lastError = NoError
    /\ attempts = <<>>
    /\ lastSig = "none"
    /\ invoked = <<>>
    /\ primaryError = NoError
    /\ fallbackError = NoError
    /\ outcome = NoOutcome
    /\ lastReported = "none"
    /\ backendCalls = 0
    /\ AuxInit

\* The call is over: it returned `out.result` or threw `out.error`
Finish(out, cache, fk, inv, att, perr, ferr) ==
    /\ pc' = "done"
    /\ outcome' = out
    /\ providerCache' = cache
    /\ factoryCalls' = FactoryCallsAfter(cache)
    /\ UNCHANGED provided
    /\ fallbackKey' = fk
    /\ invoked' = inv
    /\ attempts' = att
    /\ primaryError' = perr
    /\ fallbackError' = ferr
    /\ currentModel' = "none"
    /\ models' = <<>>
    /\ lastError' = NoError

\* The call awaits the backend request the adapter `key` has just made
Await(phase, key, a, cache, fk, inv, att, perr) ==
    /\ pc' = phase
    /\ outcome' = NoOutcome
    /\ providerCache' = cache
    /\ factoryCalls' = FactoryCallsAfter(cache)
    /\ UNCHANGED provided
    /\ fallbackKey' = fk
    /\ invoked' = inv
    /\ attempts' = Append(att, Attempt(key, a.currentModel))
    /\ primaryError' = perr
    /\ fallbackError' = NoError
    /\ currentModel' = a.currentModel
    /\ models' = a.models
    /\ lastError' = a.lastError

\* generateStructuredContent lines 122-130: `b` is what fallbackAdapter.generate
\* did up to its next await
AfterFallback(fk, error, b, cache, inv, att) ==
    CASE b.kind = "call" -> Await("fallback", fk, b, cache, fk, inv, att, error)
      [] b.kind = "return" -> Finish(Returned(b.result), cache, fk, inv, att, error, NoError)
      [] OTHER -> Finish(Threw(ErrorAfterFallbackFailure(error, b.error)),
                         cache, fk, inv, att, error, b.error)

\* generateStructuredContent lines 112-134: `a` is what primaryAdapter.generate
\* did up to its next await
AfterPrimary(r, pk, a, cache, inv, att) ==
    CASE a.kind = "call" -> Await("primary", pk, a, cache, "none", inv, att, NoError)
      [] a.kind = "return" -> Finish(Returned(a.result), cache, "none", inv, att, NoError, NoError)
      [] OTHER ->
           LET error == a.error
               fk == getFallbackProvider(env, pk)
               ens == ensureProvider(env, cache, fk)
           IN IF isRetryableError(error) /\ fk # "none"
              THEN IF ens.threw
                   THEN Finish(Threw(ErrorAfterFallbackFailure(error, NotConfiguredError(fk))),
                               cache, fk, inv, att, error, NotConfiguredError(fk))
                   ELSE AfterFallback(fk, error, AdapterBegin(fk, r), ens.cache,
                                      Append(inv, fk), att)
              ELSE Finish(Threw(error), cache, "none", inv, att, error, NoError)

\* Whether the adapter cancels its backend request when the deadline expires:
\* callClaude hands the query an AbortController that its timer aborts
\* (claude-adapter.ts:39-43, 54); the Gemini adapter races the request against
\* a timer that only rejects (gemini generate, lines 226-239); the Grok
\* adapter aborts (section 5, Cancellation)
AbortsOnDeadline(key) == key # "gemini"

\* The requests still in flight once the awaited one of adapter `key` has
\* ended in `sig`; a request that outlived its deadline is awaited by nobody
\* and stays counted until the call is over
StillInFlight(key, sig, n) ==
    IF sig = "Timeout" /\ ~AbortsOnDeadline(key) THEN n ELSE n - 1

\* The request the call makes when it goes on to await one
Started(phase) == IF phase \in {"primary", "fallback"} THEN 1 ELSE 0

\* generateStructuredContent(params) is called: lines 108-113 and the primary
\* adapter's generate up to its first await
Generate(provider, r) ==
    /\ pc = "idle"
    /\ LET pk == resolveProviderKey(env, provider)
           ens == ensureProvider(env, providerCache, pk)
       IN /\ req' = r
          /\ primaryKey' = pk
          /\ lastSig' = "none"
          /\ lastReported' = "none"
          /\ IF ens.threw
             THEN Finish(Threw(NotConfiguredError(pk)), providerCache, "none", <<>>, <<>>,
                         NoError, NoError)
             ELSE AfterPrimary(r, pk, AdapterBegin(pk, r), ens.cache, <<pk>>, <<>>)
    /\ backendCalls' = Started(pc')
    /\ UNCHANGED env
    /\ UNCHANGED auxVars

\* The model name a successful Claude response reports: none, or a name of
\* the Claude family
ReportedModels == {"none"} \cup Range(ClaudeCascade)

\* The deadline timer exists only when params.timeoutMs is set; only a
\* successful Claude response reports a model name that the adapter reads
CanEndIn(key, sig, resultModel) ==
    /\ sig = "Timeout" => req.timeoutMs
    /\ resultModel # "none" => (sig = "ok" /\ key = "claude")

\* The primary adapter's backend request ends in `sig`
PrimaryResponds(sig, resultModel) ==
    /\ pc = "primary"
    /\ CanEndIn(primaryKey, sig, resultModel)
    /\ lastSig' = sig
    /\ AfterPrimary(req, primaryKey,
                    AdapterOnOutcome(primaryKey, models, currentModel, lastError, req, sig,
                                     resultModel),
                    providerCache, invoked, attempts)
    /\ lastReported' = resultModel
    /\ backendCalls' = StillInFlight(primaryKey, sig, backendCalls) + Started(pc')
    /\ UNCHANGED <<env, req, primaryKey>>
    /\ UNCHANGED auxVars

\* The fallback adapter's backend request ends in `sig`
FallbackResponds(sig, resultModel) ==
    /\ pc = "fallback"
    /\ CanEndIn(fallbackKey, sig, resultModel)
    /\ lastSig' = sig
    /\ AfterFallback(fallbackKey, primaryError,
                     AdapterOnOutcome(fallbackKey, models, currentModel, lastError, req, sig,
                                      resultModel),
                     providerCache, invoked, attempts)
    /\ lastReported' = resultModel
    /\ backendCalls' = StillInFlight(fallbackKey, sig, backendCalls) + Started(pc')
    /\ UNCHANGED <<env, req, primaryKey>>
    /\ UNCHANGED auxVars

\* The caller has received the result or the error
Complete ==
    /\ pc = "done"
    /\ pc' = "idle"
    /\ req' = NoRequest
    /\ primaryKey' = "none"
    /\ fallbackKey' = "none"
    /\ currentModel' = "none"
    /\ models' = <<>>
    /\ lastError' = NoError
    /\ attempts' = <<>>
    /\ lastSig' = "none"
    /\ invoked' = <<>>
    /\ primaryError' = NoError
    /\ fallbackError' = NoError
    /\ outcome' = NoOutcome
    /\ provided' = NoProvided
    /\ lastReported' = "none"
    /\ backendCalls' = 0
    /\ UNCHANGED <<env, providerCache, factoryCalls>>
    /\ UNCHANGED auxVars

\* getProvider(key) is called
GetProvider(key) ==
    /\ pc = "idle"
    /\ LET resolvedKey == resolveProviderKey(env, key)
           ens == ensureProvider(env, providerCache, resolvedKey)
       IN /\ providerCache' = ens.cache
          /\ factoryCalls' = FactoryCallsAfter(ens.cache)
          /\ provided' = [status |-> IF ens.threw THEN "threw" ELSE "returned",
                          asked |-> key,
                          key |-> resolvedKey,
                          adapter |-> ens.cache[resolvedKey]]
    /\ pc' = "done"
    /\ UNCHANGED <<env, req, primaryKey, fallbackKey, currentModel, models, lastError,
                   attempts, lastSig, invoked, primaryError, fallbackError, outcome,
                   lastReported, backendCalls>>
    /\ UNCHANGED auxVars

\* The process configuration changes between two calls
SetEnv(e) ==
    /\ pc = "idle"
    /\ e # env
    /\ env' = e
    /\ UNCHANGED <<providerCache, factoryCalls, provided, pc, req, primaryKey, fallbackKey, currentModel, models,
                   lastError, attempts, lastSig, invoked, primaryError, fallbackError, outcome,
                   lastReported, backendCalls>>
    /\ UNCHANGED auxVars

Next ==
    \/ \E provider \in Preferences, r \in Requests : Generate(provider, r)
    \/ \E sig \in BackendSignals, resultModel \in ReportedModels :
          PrimaryResponds(sig, resultModel)
    \/ \E sig \in BackendSignals, resultModel \in ReportedModels :
          FallbackResponds(sig, resultModel)
    \/ Complete
    \/ \E key \in Preferences : GetProvider(key)
    \/ \E e \in Envs : SetEnv(e)

Spec == Init /\ [][Next]_vars

\* The backend request the call awaits returns or fails
BackendResponds ==
    \E sig \in BackendSignals, resultModel \in ReportedModels :
        PrimaryResponds(sig, resultModel) \/ FallbackResponds(sig, resultModel)

\* Every backend request eventually returns or fails
SpecFair == Spec /\ WF_vars(BackendResponds)

----------------------------------------------------------------------------
(* Properties *)

\* The adapter whose backend request is in flight
ActiveKey == IF pc = "primary" THEN primaryKey ELSE fallbackKey

\* The models adapter `key` has sent a request to, in this call
AttemptsOf(att, key) == {i \in 1..Len(att) : att[i].provider = key}

Tried(att, key) == {att[i].model : i \in AttemptsOf(att, key)}

\* A provider other than `key` is configured
OtherConfigured(key) ==
    \E k \in Range(ProviderKeys) : k # key /\ providerEnvGuards(env, k)

\* The fallback attempt of this call failed
FallbackFailed == pc = "done" /\ Len(invoked) = 2 /\ fallbackError # NoError

\* C1: when the primary provider failed with a retryable error and the
\* fallback attempt failed as well, the call throws the primary provider's
\* error, not the fallback's.
C1_OriginalErrorRaised ==
    FallbackFailed =>
        /\ isRetryableError(primaryError)
        /\ primaryError.src = primaryKey
        /\ outcome = Threw(primaryError)
        /\ outcome.error # fallbackError

C1_Witness ==
    /\ FallbackFailed
    /\ fallbackError.src = fallbackKey
    /\ isRetryableError(fallbackError)

\* C2: when the primary provider failed with a retryable error and the
\* fallback provider's generate succeeded, the call returns the fallback's
\* result and its provider field is the fallback provider's name.
C2_FallbackResultReturned ==
    (pc = "done" /\ Len(invoked) = 2 /\ fallbackError = NoError) =>
        /\ isRetryableError(primaryError)
        /\ lastSig = "ok"
        /\ outcome.status = "returned"
        /\ outcome.result.provider = fallbackKey
        /\ outcome.result.provider # primaryKey
        /\ attempts[Len(attempts)].provider = fallbackKey

\* Exactly two providers configured, the primary failed, the other succeeded
C2_Witness ==
    /\ pc = "done"
    /\ Cardinality({k \in Range(ProviderKeys) : providerEnvGuards(env, k)}) = 2
    /\ Len(invoked) = 2
    /\ primaryError # NoError
    /\ outcome.status = "returned"
    /\ outcome.result.provider = "claude"

\* The error kinds section 7 calls Fatal
FatalKinds == {"AuthenticationFailed", "BadRequest"}

\* C3: when the primary provider fails with a Fatal error, no other
\* provider's generate is invoked; the primary error is thrown and one
\* provider was called.
C3_FatalNeverFallsBack ==
    primaryError.kind \in FatalKinds =>
        /\ pc = "done"
        /\ invoked = <<primaryKey>>
        /\ fallbackKey = "none"
        /\ \A i \in 1..Len(attempts) : attempts[i].provider = primaryKey
        /\ outcome = Threw(primaryError)

C3_Witness ==
    /\ pc = "done"
    /\ primaryError.kind \in FatalKinds
    /\ OtherConfigured(primaryKey)
    /\ Len(invoked) = 1

\* C4: per call, generate is invoked on at most two adapters, never twice on
\* the same provider, and the fallback provider differs from the primary.
C4_AtMostOneFallback ==
    /\ Len(invoked) <= 2
    /\ Len(invoked) >= 1 => invoked[1] = primaryKey
    /\ Len(invoked) = 2 => (invoked[2] = fallbackKey /\ invoked[2] # invoked[1])
    /\ \A i \in 1..Len(attempts) : attempts[i].provider \in Range(invoked)
    /\ \A i, j \in 1..Len(attempts) :
          (i < j /\ attempts[i].provider = fallbackKey) => attempts[j].provider = fallbackKey

\* The fallback failed with a retryable error while a third provider was
\* configured, and the call ended there
C4_Witness ==
    /\ FallbackFailed
    /\ isRetryableError(fallbackError)
    /\ env.XAI_API_KEY /\ env.GEMINI_API_KEY
    /\ Len(attempts) >= 2

\* The adapters whose source is modelled line by line
SourceAdapters == {"claude", "gemini"}

\* The backend errors both adapters classify as retryable
RetryableSignals == {"RateLimited", "ServiceUnavailable", "Overloaded"}

\* The list the active adapter walks through, and the entry after the model
\* of the request in flight
ActiveList == IF ActiveKey = "gemini" THEN models ELSE ClaudeCascade

HasNextModel == IndexOf(ActiveList, currentModel) < Len(ActiveList)

NextModel == ActiveList[IndexOf(ActiveList, currentModel) + 1]

AwaitingSourceAdapter == pc \in {"primary", "fallback"} /\ ActiveKey \in SourceAdapters

C6_ForwardOnly ==
    \A i \in 1..(Len(attempts) - 1) :
        (attempts[i].provider \in SourceAdapters
            /\ attempts[i + 1].provider = attempts[i].provider) =>
        IndexOf(ModelCascade(attempts[i].provider), attempts[i + 1].model)
            > IndexOf(ModelCascade(attempts[i].provider), attempts[i].model)

\* The outcomes that are Fatal inside an adapter (sections 4.1 and 7)
FatalSignals == {"AuthenticationFailed", "BadRequest", "Timeout"}

\* C7: when an adapter's first request fails with a Fatal error, the adapter
\* sends no other request in that call and throws an error stemming from
\* that failure.
C7_FatalStopsCascade ==
    [][(AwaitingSourceAdapter
          /\ Cardinality(AttemptsOf(attempts, ActiveKey)) = 1
          /\ lastSig' \in FatalSignals) =>
        /\ AttemptsOf(attempts', ActiveKey) = AttemptsOf(attempts, ActiveKey)
        /\ pc = "primary" =>
              (primaryError'.src = primaryKey /\ primaryError'.kind = lastSig')
        /\ pc = "fallback" =>
              (pc' = "done" /\ fallbackError'.src = fallbackKey
                 /\ fallbackError'.kind = lastSig')]_vars

C7_Witness ==
    /\ pc = "done"
    /\ primaryKey = "gemini"
    /\ Len(attempts) = 1
    /\ lastSig = "BadRequest"
    /\ primaryError.text = "Gemini API error ("
    /\ outcome = Threw(primaryError)

\* The adapter that made the latest request has no model left to try
LastAdapterExhausted ==
    LET last == attempts[Len(attempts)] IN
    IF last.provider = "gemini" THEN Tried(attempts, "gemini") = Range(GeminiCascade)
    ELSE last.model = ClaudeCascade[Len(ClaudeCascade)]

\* A fallback provider was attempted if another provider is configured
FallbackAttemptedIfAvailable == OtherConfigured(primaryKey) => Len(invoked) = 2

\* C8: after a deadline expiry the adapter sends no further request, and the
\* error it throws is retryable for generateStructuredContent, which then
\* attempts a fallback provider.
C8_TimeoutFallsBack ==
    /\ (lastSig = "Timeout" /\ primaryKey \in SourceAdapters) => pc # "primary"
    /\ (lastSig = "Timeout" /\ pc = "fallback" /\ fallbackKey \in SourceAdapters) =>
          Cardinality(AttemptsOf(attempts, fallbackKey)) = 1
    /\ (pc \in {"fallback", "done"} /\ primaryKey \in SourceAdapters
          /\ primaryError.kind = "Timeout") =>
          FallbackAttemptedIfAvailable

\* C9: a rate-limit failure advances the cascade inside the adapter, and when
\* the primary adapter finally fails with it, a fallback provider is attempted.
C9_RateLimitFallsBack ==
    /\ (pc = "done" /\ lastSig = "RateLimited"
          /\ attempts[Len(attempts)].provider \in SourceAdapters) => LastAdapterExhausted
    /\ (pc \in {"fallback", "done"} /\ primaryKey \in SourceAdapters
          /\ primaryError.kind = "RateLimited") =>
          FallbackAttemptedIfAvailable

\* C10: an empty response advances the cascade inside every adapter, and when
\* the primary adapter finally fails because of empty responses, a fallback
\* provider is attempted.
C10_EmptyResponseFallsBack ==
    /\ (pc = "done" /\ lastSig = "empty"
          /\ attempts[Len(attempts)].provider \in SourceAdapters) => LastAdapterExhausted
    /\ (pc \in {"fallback", "done"} /\ primaryKey \in SourceAdapters
          /\ primaryError.kind = "empty") =>
          FallbackAttemptedIfAvailable

----------------------------------------------------------------------------
(* Bounded-concurrency batch dispatcher: app/api/translate/route.ts *)

\* The largest batch explored
MaxTexts == 5

\* CHUNK_SIZE (100 in the source) and CONCURRENCY (6 in the source), scaled
\* down with the batch; the handler uses them only in the arithmetic below
CHUNK_SIZE == 2

CONCURRENCY == 2

Min(a, b) == IF a < b THEN a ELSE b

\* An empty slot of `new Array(texts.length)`
Hole == 0

\* The translation of the text at 0-based position i of texts
Translation(i) == i + 1

\* An item of a translateBatch result that answers none of the chunk's inputs
Extra == -1

\* chunk(texts, CHUNK_SIZE).length
NumChunks(n) == (n + CHUNK_SIZE - 1) \div CHUNK_SIZE

\* chunks[k].length: texts.slice(k * CHUNK_SIZE, k * CHUNK_SIZE + CHUNK_SIZE)
ChunkLength(n, k) == Min(CHUNK_SIZE, n - k * CHUNK_SIZE)

\* Variant: one worker per chunk
WorkerCount_Unbounded(n) == NumChunks(n)

\* Math.min(CONCURRENCY, chunks.length)
WorkerCount(n) == Min(CONCURRENCY, NumChunks(n))

\* What translateBatch(chunks[k]) resolves to when it returns len items: the
\* translations of the chunk's inputs in order, cut short or followed by
\* extra items
Translated(n, k, len) ==
    [i \in 1..len |-> IF i <= ChunkLength(n, k)
                      THEN Translation(k * CHUNK_SIZE + i - 1) ELSE Extra]

\* The lengths explored for the result of translateBatch(chunks[k])
ReturnLengths(n, k) ==
    {len \in {ChunkLength(n, k) - 1, ChunkLength(n, k), ChunkLength(n, k) + 1} : len >= 0}

\* results[j] = v for a 0-based j; an assignment past the end grows the array
SetSlot(res, j, v) ==
    IF j < Len(res) THEN [res EXCEPT ![j + 1] = v]
    ELSE res \o [h \in 1..(j - Len(res)) |-> Hole] \o <<v>>

\* Variant: the chunk index is used as the offset
StartOf_Unscaled(myIndex) == myIndex

\* const start = myIndex * CHUNK_SIZE
StartOf(myIndex) == myIndex * CHUNK_SIZE

\* for (let i = 0; i < translated.length; i++) results[start + i] = translated[i]
RECURSIVE Place(_, _, _, _)
Place(res, start, translated, i) ==
    IF i >= Len(translated) THEN res
    ELSE Place(SetSlot(res, start + i, translated[i + 1]), start, translated, i + 1)

\* Variant: the counter is not advanced by the claim
NextIndex_Stuck(i) == i

\* index++
NextIndex(i) == i + 1

\* error.message of a translateBatch failure, by the substrings the handler
\* looks for
TranslateErrors == {{"API key"}, {"quota"}, {"limit"}, {}}

\* The catch block of the handler
ErrorResponse(msg) ==
    IF "API key" \in msg
    THEN [status |-> 500, kind |-> "error", translations |-> <<>>,
          error |-> "Translation service configuration error"]
    ELSE IF "quota" \in msg \/ "limit" \in msg
    THEN [status |-> 429, kind |-> "error", translations |-> <<>>,
          error |-> "Translation service quota exceeded"]
    ELSE [status |-> 500, kind |-> "error", translations |-> <<>>,
          error |-> "Translation failed"]

\* Variant: the partial results are sent along with the error
FailureResponse_WithPartial(msg, res) ==
    [ErrorResponse(msg) EXCEPT !.translations = res]

\* What the handler answers when translateBatch failed with `msg` while the
\* output array was `res`
FailureResponse(msg, res) == ErrorResponse(msg)

\* NextResponse.json({ translations: results })
TranslationsResponse(res) ==
    [status |-> 200, kind |-> "translations", translations |-> res, error |-> "none"]

\* The early returns of the handler for a request that is not dispatched
RejectedResponse(kind) ==
    [status |-> 400, kind |-> "error", translations |-> <<>>,
     error |-> CASE kind = "invalid" -> "Invalid request format"
                 [] kind = "tooManyTexts" -> "Batch size too large."
                 [] OTHER -> "Total text size too large."]

RequestKinds == {"ok", "invalid", "tooManyTexts", "tooManyChars"}

WorkerIds == 1..Len(workers)

Settled(ws) == \A w \in 1..Len(ws) : ws[w].pc \in {"done", "failed"}

AllDone(ws) == \A w \in 1..Len(ws) : ws[w].pc = "done"

\* The handler is called with `n` texts
TranslateRequest(kind, n) ==
    /\ bphase = "idle"
    /\ kind # "ok" => n = 0
    /\ nTexts' = n
    /\ index' = 0
    /\ claimLog' = <<>>
    /\ doneLog' = <<>>
    /\ failLog' = <<>>
    /\ inFlight' = {}
    /\ wellFormed' = TRUE
    /\ IF kind # "ok"
       THEN /\ bphase' = "responded"
            /\ response' = RejectedResponse(kind)
            /\ results' = <<>>
            /\ workers' = <<>>
       ELSE IF n = 0
       THEN /\ bphase' = "responded"
            /\ response' = TranslationsResponse(<<>>)
            /\ results' = <<>>
            /\ workers' = <<>>
       ELSE /\ bphase' = "running"
            /\ response' = NoResponse
            /\ results' = [i \in 1..n |-> Hole]
            /\ workers' = [w \in 1..WorkerCount(n) |-> [pc |-> "jitter", myIndex |-> -1]]
    /\ UNCHANGED <<vars, recoveryVars, schemaVars>>

\* worker(): the while condition, the claim and the call of translateBatch,
\* run without interruption; `res` is the output array and `calls` the
\* unsettled calls at that point.  When
\* the last worker returns, Promise.all resolves and the handler answers.
WorkerLoop(w, res, calls) ==
    /\ results' = res
    /\ IF index < NumChunks(nTexts)
       THEN /\ workers' = [workers EXCEPT ![w] = [pc |-> "await", myIndex |-> index]]
            /\ index' = NextIndex(index)
            /\ claimLog' = Append(claimLog, index)
            /\ inFlight' = calls \cup {<<w, index>>}
            /\ UNCHANGED <<bphase, response>>
       ELSE /\ workers' = [workers EXCEPT ![w].pc = "done"]
            /\ inFlight' = calls
            /\ UNCHANGED <<index, claimLog>>
            /\ IF AllDone(workers')
               THEN bphase' = "responded" /\ response' = TranslationsResponse(res)
               ELSE UNCHANGED <<bphase, response>>

\* The jitter timer of worker w fires
WorkerWakes(w) ==
    /\ w \in WorkerIds
    /\ workers[w].pc = "jitter"
    /\ WorkerLoop(w, results, inFlight)
    /\ UNCHANGED <<nTexts, doneLog, failLog, wellFormed>>
    /\ UNCHANGED <<vars, recoveryVars, schemaVars>>

\* translateBatch of worker w resolves with `len` items
TranslateResolves(w, len) ==
    /\ w \in WorkerIds
    /\ workers[w].pc = "await"
    /\ len \in ReturnLengths(nTexts, workers[w].myIndex)
    /\ LET myIndex == workers[w].myIndex
           translated == Translated(nTexts, myIndex, len)
       IN /\ WorkerLoop(w, Place(results, StartOf(myIndex), translated, 0),
                        inFlight \ {<<w, myIndex>>})
          /\ doneLog' = Append(doneLog, myIndex)
          /\ wellFormed' = (wellFormed /\ len = ChunkLength(nTexts, myIndex))
    /\ UNCHANGED <<nTexts, failLog>>
    /\ UNCHANGED <<vars, recoveryVars, schemaVars>>

\* translateBatch of worker w rejects: worker w rejects, and the first
\* rejection makes Promise.all reject and the handler answer
TranslateRejects(w, msg) ==
    /\ w \in WorkerIds
    /\ workers[w].pc = "await"
    /\ workers' = [workers EXCEPT ![w].pc = "failed"]
    /\ failLog' = Append(failLog, msg)
    /\ inFlight' = inFlight \ {<<w, workers[w].myIndex>>}
    /\ IF bphase = "running"
       THEN bphase' = "responded" /\ response' = FailureResponse(msg, results)
       ELSE UNCHANGED <<bphase, response>>
    /\ UNCHANGED <<nTexts, results, index, claimLog, doneLog, wellFormed>>
    /\ UNCHANGED <<vars, recoveryVars, schemaVars>>

\* The request is over and no worker is left
BatchReset ==
    /\ bphase = "responded"
    /\ Settled(workers)
    /\ bphase' = "idle"
    /\ nTexts' = 0
    /\ results' = <<>>
    /\ index' = 0
    /\ workers' = <<>>
    /\ response' = NoResponse
    /\ claimLog' = <<>>
    /\ doneLog' = <<>>
    /\ failLog' = <<>>
    /\ inFlight' = {}
    /\ wellFormed' = TRUE
    /\ UNCHANGED <<vars, recoveryVars, schemaVars>>

BatchNext ==
    \/ \E kind \in RequestKinds, n \in 0..MaxTexts : TranslateRequest(kind, n)
    \/ \E w \in WorkerIds : WorkerWakes(w)
    \/ \E w \in WorkerIds, len \in 0..(CHUNK_SIZE + 1) : TranslateResolves(w, len)
    \/ \E w \in WorkerIds, msg \in TranslateErrors : TranslateRejects(w, msg)
    \/ BatchReset

allVars == <<vars, auxVars>>

SpecBatch == Init /\ [][BatchNext]_allVars

----------------------------------------------------------------------------
(* Properties of the batch dispatcher *)

NoDuplicates(seq) == \A i, j \in 1..Len(seq) : i # j => seq[i] # seq[j]

ChunkIndices == {k \in 0..MaxTexts : k < NumChunks(nTexts)}

\* The handler answered a dispatched batch with its translations
DispatchSucceeded == response.kind = "translations" /\ nTexts > 0

\* C11: when the dispatch of N texts completes successfully, and every
\* backend call returned one item per input of its chunk, the output has
\* exactly N slots and slot i holds the translation of text i, whatever the
\* order in which the workers' calls completed.
C11_OutputInInputOrder ==
    (DispatchSucceeded /\ wellFormed) =>
        /\ Len(response.translations) = nTexts
        /\ \A i \in 1..nTexts : response.translations[i] = Translation(i - 1)

\* A successful dispatch whose chunks completed out of order
C11_Witness ==
    /\ DispatchSucceeded
    /\ wellFormed
    /\ \E i, j \in 1..Len(doneLog) : i < j /\ doneLog[i] > doneLog[j]

\* C12: every chunk index is claimed at most once and processed at most
\* once, only indices of 0..ceil(N/C)-1 are claimed, no two workers hold the
\* same chunk, and a dispatch that completes without a failure has processed
\* every chunk.
C12_EachChunkExactlyOnce ==
    /\ NoDuplicates(claimLog)
    /\ NoDuplicates(doneLog)
    /\ Range(claimLog) \subseteq ChunkIndices
    /\ Range(doneLog) \subseteq Range(claimLog)
    /\ \A c, d \in inFlight : c[2] = d[2] => c[1] = d[1]
    /\ DispatchSucceeded => Range(doneLog) = ChunkIndices

\* A successful dispatch of more chunks than workers: some worker came back
\* to the counter for a second chunk
C12_Witness ==
    /\ DispatchSucceeded
    /\ Len(doneLog) > Len(workers)
    /\ Len(workers) > 1

\* C13: the number of translateBatch calls in flight never exceeds
\* min(CONCURRENCY, number of chunks), and no worker has two calls in flight.
C13_BoundedInFlight ==
    /\ Cardinality(inFlight) <= Min(CONCURRENCY, NumChunks(nTexts))
    /\ \A c, d \in inFlight : c[1] = d[1] => c[2] = d[2]

\* The pool is saturated while chunks are still unclaimed
C13_Witness ==
    /\ Cardinality(inFlight) = CONCURRENCY
    /\ index < NumChunks(nTexts)

\* C14: once a chunk has failed, the handler's answer is the error response
\* of the first failure and carries no translations; and a failure settles
\* only the failing worker: the calls of the other workers stay in flight.
C14_FirstFailureWins ==
    /\ [](failLog # <<>> =>
            /\ response = ErrorResponse(failLog[1])
            /\ response.translations = <<>>)
    /\ [][Len(failLog') > Len(failLog) =>
            \E w \in WorkerIds :
                /\ workers' = [workers EXCEPT ![w].pc = "failed"]
                /\ inFlight' = inFlight \ {<<w, workers[w].myIndex>>}]_allVars

\* The handler has answered with the first failure while another worker's
\* call is still in flight and translations of other chunks were written
C14_Witness ==
    /\ failLog # <<>>
    /\ response.kind = "error"
    /\ inFlight # {}
    /\ doneLog # <<>>

----------------------------------------------------------------------------
(* Properties of the provider registry *)

\* The call that has just ended failed in ensureProvider
NotConfiguredFailure ==
    \/ provided.status = "threw"
    \/ outcome.error.kind = "NotConfigured"

\* The key that the call that has just started resolved to
CalledKey == IF provided.status # "none" THEN provided.key ELSE primaryKey

\* A getProvider or generateStructuredContent call starts in this step
CallStarts == pc = "idle" /\ pc' # "idle"

\* C15: each provider's factory is called at most once and its adapter is
\* cached from then on; a cached adapter is never replaced or removed; a call
\* that fails because its provider is not configured leaves the cache as it
\* was; and a call whose provider is configured (or cached) does not fail
\* that way and leaves the provider's adapter cached.
C15_AdapterConstructedOnce ==
    /\ [](\A key \in Range(ProviderKeys) :
            /\ factoryCalls[key] <= 1
            /\ (providerCache[key] # NoAdapter) <=> (factoryCalls[key] = 1))
    /\ [][\A key \in Range(ProviderKeys) :
            providerCache[key] # NoAdapter => providerCache'[key] = providerCache[key]]_vars
    /\ [][(CallStarts /\ NotConfiguredFailure') => providerCache' = providerCache]_vars
    /\ [][CallStarts =>
            IF providerEnvGuards(env, CalledKey') \/ providerCache[CalledKey'] # NoAdapter
            THEN providerCache'[CalledKey'] # NoAdapter /\ ~NotConfiguredFailure'
            ELSE NotConfiguredFailure']_vars

\* getProvider has failed for a provider that is not configured, after the
\* adapter of another provider was constructed and cached
C15_Witness ==
    /\ provided.status = "threw"
    /\ providerCache[provided.key] = NoAdapter
    /\ \E key \in Range(ProviderKeys) : factoryCalls[key] = 1

\* The selection the provider documentation describes: the override, else
\* the process configuration, else the first configured provider; a name
\* that is no registered provider counts as not given
FirstConfigured(e) == availableProviders(e)[1]

DocumentedSelection(e, asked) ==
    IF asked \in Range(ProviderKeys) THEN asked
    ELSE IF e.AI_PROVIDER \in Range(ProviderKeys) THEN e.AI_PROVIDER
    ELSE FirstConfigured(e)

\* C16: getProvider resolves to the per-call override if one is given, else
\* to the process-configured provider, else to the first configured provider
\* in the order grok, gemini, claude.
C16_SelectionOrder ==
    provided.status # "none" => provided.key = DocumentedSelection(env, provided.asked)

----------------------------------------------------------------------------
(* Response recovery: app/api/generate-summary/route.ts *)

\* The most array elements of a raw text explored
MaxItems == 7

\* recoverPartialTakeaways: `takeaways.length >= 4`
MinTakeaways == 4

\* recoverPartialTakeaways: `takeaways.length >= 6`
MaxTakeaways == 6

\* The array elements of a raw text:
\*   "record"   {"label":"L","insight":"I","timestamps":["00:10"]}
\*   "blank"    the same with "label":""
\*   "encoded"  a record serialized as a JSON string: "{\"label\":\"L\",...}"
ItemKinds == {"record", "blank", "encoded"}

\* How the records are laid out: on one line each, or indented the way
\* JSON.stringify(value, null, 2) does, with every array element on a line
\* of its own
Layouts == {"compact", "indented"}

\* The raw texts explored: plain prose, or an array of at most MaxItems
\* elements, possibly inside ```json fences, possibly followed by a record
\* that is cut off mid-field, with or without its closing bracket
ItemLists == UNION {[1..n -> ItemKinds] : n \in 0..MaxItems}

SummaryRaws ==
    {[form |-> "prose", fence |-> FALSE, layout |-> "compact", items |-> <<>>,
      cut |-> FALSE, closed |-> FALSE]}
    \cup
    {r \in [form : {"array"}, fence : BOOLEAN, layout : Layouts, items : ItemLists,
            cut : BOOLEAN, closed : BOOLEAN] : r.cut => ~r.closed}

\* The takeaway read from the element at position `pos`; `valid` = its label,
\* insight and timestamps are all non-empty
Takeaway(pos, kind) == [pos |-> pos, valid |-> kind # "blank"]

Take(seq, n) == SubSeq(seq, 1, Min(n, Len(seq)))

\* The takeaways of the elements whose kind is in `kinds`, in order of appearance
RECURSIVE TakeawaysOf(_, _, _)
TakeawaysOf(items, kinds, pos) ==
    IF pos > Len(items) THEN <<>>
    ELSE IF items[pos] \in kinds
         THEN <<Takeaway(pos, items[pos])>> \o TakeawaysOf(items, kinds, pos + 1)
         ELSE TakeawaysOf(items, kinds, pos + 1)

\* JSON.parse of the array text succeeds: it is closed and nothing is cut off
ParsesAsJson(r) == r.form = "array" /\ r.closed /\ ~r.cut

\* safeJsonParse (lib/json-utils): direct parse, then parse of the text with
\* its code fences stripped; `log` = the stages it ran
safeJsonParse(r) ==
    IF ~r.fence /\ ParsesAsJson(r)
    THEN [ok |-> TRUE, items |-> r.items, log |-> <<"direct">>]
    ELSE IF r.fence /\ ParsesAsJson(r)
    THEN [ok |-> TRUE, items |-> r.items, log |-> <<"direct", "fence">>]
    ELSE [ok |-> FALSE, items |-> <<>>, log |-> <<"direct", "fence">>]

\* normalizeTakeawaysPayload: string elements are parsed, elements without a
\* label, an insight or a timestamp are skipped, at most 6 are kept
normalizeTakeawaysPayload(items) ==
    Take(TakeawaysOf(items, {"record", "encoded"}, 1), MaxTakeaways)

\* summaryTakeawaysSchema.safeParse(list).success (lib/schemas)
SchemaAccepts(list) ==
    /\ Len(list) >= MinTakeaways
    /\ Len(list) <= MaxTakeaways
    /\ \A i \in 1..Len(list) : list[i].valid

\* recoverPartialTakeaways, lines 259-299: the array of JSON strings.  The
\* branch is entered when the trimmed text starts with '[' and contains
\* \"label\", and pushes nothing unless JSON.parse of the whole text succeeds
DecodedItems(r) ==
    IF /\ r.form = "array"
       /\ ~r.fence
       /\ \E i \in 1..Len(r.items) : r.items[i] = "encoded"
       /\ ParsesAsJson(r)
    THEN Take(TakeawaysOf(r.items, {"encoded"}, 1), MaxTakeaways)
    ELSE <<>>

\* recoverPartialTakeaways, lines 304-346: the matches of objectPattern in
\* the raw text.  It matches an unescaped record whose timestamps array is on
\* one line ('.' does not match a line break), whatever its label; it matches
\* neither a JSON string nor a record that is cut off
RegexMatches(r) ==
    IF r.form = "array" /\ r.layout = "compact"
    THEN TakeawaysOf(r.items, {"record", "blank"}, 1)
    ELSE <<>>

\* recoverPartialTakeaways, lines 292-294: the first branch did not return
RegexStageRuns(decoded) == Len(decoded) < MinTakeaways

\* recoverPartialTakeaways(raw); ok = FALSE: it returned null
recoverPartialTakeaways(r) ==
    LET decoded == DecodedItems(r)
        matched == RegexMatches(r)
        \* the regex loop pushes onto the same array and stops at 6
        all == decoded \o Take(matched, MaxTakeaways - Len(decoded))
    IN IF ~RegexStageRuns(decoded)
       THEN [called |-> TRUE, ok |-> TRUE, value |-> decoded, stage |-> "doubleEncoding",
             decoded |-> decoded, matched |-> <<>>]
       ELSE [called |-> TRUE, ok |-> Len(all) >= MinTakeaways,
             value |-> IF Len(all) >= MinTakeaways THEN all ELSE <<>>,
             stage |-> "regex", decoded |-> decoded, matched |-> matched]

\* The stages of the pipeline, in their order
StageOrder == <<"direct", "fence", "doubleEncoding", "regex">>

Stage(name, ok) == [stage |-> name, ok |-> ok]

\* The stages `names` were run and the last one yielded schema-valid data iff `ok`
StagesRun(names, ok) == [i \in 1..Len(names) |-> Stage(names[i], i = Len(names) /\ ok)]

SummaryReply(takeaways) ==
    [status |-> 200, kind |-> "summary", fixed |-> "none", takeaways |-> takeaways,
     details |-> NoDetails]

\* The outer catch of the summary handler
SummaryFailure ==
    [status |-> 500, kind |-> "error", fixed |-> "Failed to generate summary",
     takeaways |-> <<>>, details |-> NoDetails]

\* Variant: the recovery runs whatever stage 1 yielded
RecoveryRuns_Always(stage1) == TRUE

\* Summary handler, lines 433-446: recoverPartialTakeaways is called in the
\* catch block of stage 1
RecoveryRuns(stage1) == ~stage1

\* Variant: a response no stage could parse is generated again
Regenerations_OnFailure(accepted) == IF accepted THEN 0 ELSE 1

\* The generateAIResponse calls placed while parsing the response: the stages
\* and their catch blocks (summary handler, lines 430-472; chat handler,
\* lines 223-268) contain none, whether a stage accepted the text or not
Regenerations(accepted) == 0

\* A request reaches the summary or the chat handler, which calls
\* generateAIResponse, or the image handler, which calls callGeminiImageAPI
RecoveryRequest(rt) ==
    /\ rpc = "idle"
    /\ rpc' = "awaiting"
    /\ route' = rt
    /\ genCalls' = genCalls + 1
    /\ UNCHANGED <<raw, stageLog, partial, recovered, reply, genError>>
    /\ UNCHANGED <<vars, batchVars, schemaVars>>

\* Summary handler, lines 430-487: generateAIResponse resolved to the text r
SummaryResponds(r) ==
    /\ rpc = "awaiting"
    /\ route = "summary"
    /\ rpc' = "responded"
    /\ raw' = r
    /\ LET parsed == safeJsonParse(r)
           normalized == normalizeTakeawaysPayload(parsed.items)
           stage1 == parsed.ok /\ SchemaAccepts(normalized)
           rp == recoverPartialTakeaways(r)
           stage2 == rp.ok /\ Len(rp.value) >= MinTakeaways /\ SchemaAccepts(rp.value)
           decodedOk == Len(rp.decoded) >= MinTakeaways /\ SchemaAccepts(rp.decoded)
           log2 == <<Stage("doubleEncoding", decodedOk)>>
                   \o IF RegexStageRuns(rp.decoded)
                      THEN <<Stage("regex", stage2)>> ELSE <<>>
       IN IF ~RecoveryRuns(stage1)
          THEN /\ stageLog' = StagesRun(parsed.log, TRUE)
               /\ partial' = NoPartial
               /\ recovered' = [kind |-> "takeaways", takeaways |-> normalized]
               /\ reply' = SummaryReply(normalized)
          ELSE /\ stageLog' = StagesRun(parsed.log, stage1) \o log2
               /\ partial' = rp
               /\ IF stage2
                  THEN /\ recovered' = [kind |-> "takeaways", takeaways |-> rp.value]
                       /\ reply' = SummaryReply(rp.value)
                  ELSE /\ recovered' = NoValue
                       /\ reply' = SummaryFailure
    /\ genCalls' = genCalls + Regenerations(reply' # SummaryFailure)
    /\ UNCHANGED <<route, genError>>
    /\ UNCHANGED <<vars, batchVars, schemaVars>>

----------------------------------------------------------------------------
(* Response recovery: app/api/chat/route.ts *)

\* The raw texts explored:
\*   "object"       {"answer":"A","timestamps":[...]}
\*   "wrongShape"   valid JSON without an "answer" field
\*   "cut"          the object cut off after its complete "answer" string
\*   "cutInAnswer"  the object cut off inside its "answer" string
\*   "prose"        text without any JSON
\*   "blank"        white space only
ChatBodies == {"object", "wrongShape", "cut", "cutInAnswer", "prose", "blank"}

\* stamps = the text contains timestamps such as 01:23
ChatRaws == [form : {"chat"}, fence : BOOLEAN, body : ChatBodies, stamps : BOOLEAN]

\* stripCodeFences(raw)
stripCodeFences(r) == [r EXCEPT !.fence = FALSE]

\* `text` is the empty string
IsEmptyText(r) == r.body = "blank" /\ ~r.fence

\* JSON.parse(text) followed by chatResponseSchema.parse succeeds
ChatParses(r) == ~r.fence /\ r.body = "object"

\* Variant: without a match the text itself is returned as the answer
recoverPartialResponse_Echo(r) ==
    IF r.body \in {"object", "cut"}
    THEN [ok |-> TRUE, answer |-> "extracted", timestamps |-> r.stamps]
    ELSE [ok |-> TRUE, answer |-> "raw", timestamps |-> r.stamps]

\* recoverPartialResponse(raw): /"answer"\s*:\s*"([\s\S]*?)"/ needs the
\* field name and both quotes of its value; ok = FALSE: it returned null
recoverPartialResponse(r) ==
    IF r.body \in {"object", "cut"}
    THEN [ok |-> TRUE, answer |-> "extracted", timestamps |-> r.stamps]
    ELSE [ok |-> FALSE, answer |-> "none", timestamps |-> FALSE]

\* The answer of the model, after the citations were attached
ChatReply(answer) ==
    [status |-> 200, kind |-> "answer", fixed |-> "none", takeaways |-> <<>>,
     details |-> NoDetails]

\* Chat handler, lines 250-253 and 262-265
ChatFailure ==
    [status |-> 200, kind |-> "fixed",
     fixed |-> "I couldn't generate a valid response. Please try again.",
     takeaways |-> <<>>, details |-> NoDetails]

\* Chat handler, lines 223-268: generateAIResponse resolved to the text r
ChatResponds(r) ==
    /\ rpc = "awaiting"
    /\ route = "chat"
    /\ rpc' = "responded"
    /\ raw' = r
    /\ partial' = NoPartial
    /\ LET fallbackContent == stripCodeFences(r)
           rp == IF IsEmptyText(fallbackContent)
                 THEN recoverPartialResponse(r)
                 ELSE recoverPartialResponse(fallbackContent)
           Accept(log, answer) ==
               /\ stageLog' = log
               /\ recovered' = [kind |-> answer, takeaways |-> <<>>]
               /\ reply' = ChatReply(answer)
       IN IF ChatParses(r)
          THEN Accept(StagesRun(<<"direct">>, TRUE), "parsed")
          ELSE IF ~IsEmptyText(fallbackContent) /\ ChatParses(fallbackContent)
          THEN Accept(StagesRun(<<"direct", "fence">>, TRUE), "parsed")
          ELSE LET log == IF IsEmptyText(fallbackContent)
                          THEN StagesRun(<<"direct", "regex">>, rp.ok)
                          ELSE StagesRun(<<"direct", "fence", "regex">>, rp.ok)
               IN IF rp.ok
                  THEN Accept(log, rp.answer)
                  ELSE /\ stageLog' = log
                       /\ recovered' = NoValue
                       /\ reply' = ChatFailure
    /\ genCalls' = genCalls + Regenerations(reply' # ChatFailure)
    /\ UNCHANGED <<route, genError>>
    /\ UNCHANGED <<vars, batchVars, schemaVars>>

----------------------------------------------------------------------------
(* Failed generations: what the handlers answer *)

\* The errors generateStructuredContent rejects with: what an adapter throws
\* for a failed request, and the registry's own error
GenerationErrors ==
    {callClaude(ClaudeCascade[1], NoRequest, sig, "none").error :
        sig \in BackendSignals \ {"ok"}}
    \cup {GeminiApiError(GeminiRequestError(sig)) : sig \in BackendErrors \cup {"Timeout"}}
    \cup {AllGeminiModelsFailed(GeminiRequestError(sig)) : sig \in BackendErrors}
    \cup {AllGeminiModelsFailed(NoError), GeminiApiError(SchemaConversionError)}
    \cup {NotConfiguredError(key) : key \in Range(ProviderKeys)}

\* callGeminiImageAPI, lines 119-126: the error carries the status and the
\* body of the backend's answer
ImageApiError(sig) ==
    Err("image", sig, 0, RawMessage(sig), "Gemini image API error (")

\* callGeminiImageAPI, lines 140 and 148
NoImageError == Err("image", "empty", 0, {}, "Gemini returned no image data")

ImageErrors == {ImageApiError(sig) : sig \in BackendErrors} \cup {NoImageError}

\* The needles of the chat handler that occur in the fixed part of a message:
\*   'AI provider "x" is not configured. Please supply the required ...',
\*   'Failed to convert schema: ...', 'Claude request timed out.'
TemplateNeedles(error) ==
    CASE error.kind = "NotConfigured" -> {"required"}
      [] error.kind = "SchemaConversion" -> {"schema", "convert"}
      [] error.kind = "Timeout" /\ error.src = "claude" -> {"timed out"}
      [] OTHER -> {}

\* errorMessage.includes(needle), on error.message
MessageIncludes(error, needle) ==
    Includes(error.msg \cup TemplateNeedles(error), needle)

\* error.message, as far as a reader of the reply can tell it apart
Message(error) == [text |-> error.text, msg |-> error.msg]

ChatErrorMessage(content) ==
    [status |-> 200, kind |-> "fixed", fixed |-> content, takeaways |-> <<>>,
     details |-> NoDetails]

\* Chat handler, lines 166-214: the catch block around generateAIResponse
ChatErrorReply(error) ==
    IF \/ MessageIncludes(error, "429") \/ MessageIncludes(error, "quota")
       \/ MessageIncludes(error, "rate limit")
       \/ MessageIncludes(error, "service unavailable")
       \/ MessageIncludes(error, "503")
    THEN ChatErrorMessage("The AI service is currently at capacity. Please wait a moment and try again.")
    ELSE IF \/ MessageIncludes(error, "API_KEY") \/ MessageIncludes(error, "required")
            \/ MessageIncludes(error, "401") \/ MessageIncludes(error, "authentication")
            \/ MessageIncludes(error, "unauthorized")
    THEN ChatErrorMessage("There's a configuration issue with the AI service. Please try again later.")
    ELSE IF MessageIncludes(error, "schema") \/ MessageIncludes(error, "convert")
    THEN ChatErrorMessage("I had trouble formatting my response. Please try rephrasing your question.")
    ELSE IF MessageIncludes(error, "timeout") \/ MessageIncludes(error, "timed out")
    THEN ChatErrorMessage("The request took too long. Please try again with a shorter question.")
    ELSE ChatErrorMessage("I apologize, but I'm having trouble processing your request right now. Please try again in a moment.")

\* Image handler, lines 196-202
ImageReply ==
    [status |-> 200, kind |-> "image", fixed |-> "none", takeaways |-> <<>>,
     details |-> NoDetails]

\* Image handler, lines 209-218: the catch block puts error.message into the
\* body
ImageFailure(error) ==
    [status |-> 500, kind |-> "error", fixed |-> "Failed to generate image",
     takeaways |-> <<>>, details |-> Message(error)]

\* The generation call of the handler rejects with `error`: the summary
\* handler rethrows into its outer catch (lines 425-428, 481-486)
GenerationFails(error) ==
    /\ rpc = "awaiting"
    /\ rpc' = "responded"
    /\ genError' = error
    /\ reply' = CASE route = "summary" -> SummaryFailure
                  [] route = "chat" -> ChatErrorReply(error)
                  [] OTHER -> ImageFailure(error)
    /\ UNCHANGED <<route, raw, stageLog, partial, recovered, genCalls>>
    /\ UNCHANGED <<vars, batchVars, schemaVars>>

\* Image handler, lines 189-202: callGeminiImageAPI resolved to an image
ImageResponds ==
    /\ rpc = "awaiting"
    /\ route = "image"
    /\ rpc' = "responded"
    /\ reply' = ImageReply
    /\ UNCHANGED <<route, raw, stageLog, partial, recovered, genCalls, genError>>
    /\ UNCHANGED <<vars, batchVars, schemaVars>>

\* The request is over
RecoveryReset ==
    /\ rpc = "responded"
    /\ rpc' = "idle"
    /\ route' = "none"
    /\ raw' = NoRaw
    /\ stageLog' = <<>>
    /\ partial' = NoPartial
    /\ recovered' = NoValue
    /\ reply' = NoReply
    /\ genCalls' = 0
    /\ genError' = NoError
    /\ UNCHANGED <<vars, batchVars, schemaVars>>

\* generateAIResponse resolves to some raw text
SummaryResponse == rpc = "awaiting" /\ \E r \in SummaryRaws : SummaryResponds(r)

ChatResponse == rpc = "awaiting" /\ \E r \in ChatRaws : ChatResponds(r)

\* The generation call rejects
GenerationFailure ==
    /\ rpc = "awaiting"
    /\ \E error \in (IF route = "image" THEN ImageErrors ELSE GenerationErrors) :
          GenerationFails(error)

RecoveryNext ==
    \/ \E rt \in {"summary", "chat", "image"} : RecoveryRequest(rt)
    \/ SummaryResponse
    \/ ChatResponse
    \/ ImageResponds
    \/ GenerationFailure
    \/ RecoveryReset

\* A process without any provider configuration
BareEnv == [XAI_API_KEY |-> FALSE, GEMINI_API_KEY |-> FALSE, AI_PROVIDER |-> "none"]

RecoveryStart == env = BareEnv /\ Init

SpecRecovery == RecoveryStart /\ [][RecoveryNext]_allVars

----------------------------------------------------------------------------
(* Properties of the response recovery *)

LastStage == stageLog[Len(stageLog)]

\* What a stage of the summary handler yields for the raw text
StageValue(stage) ==
    CASE stage \in {"direct", "fence"} -> normalizeTakeawaysPayload(raw.items)
      [] stage = "doubleEncoding" -> DecodedItems(raw)
      [] OTHER -> recoverPartialTakeaways(raw).value

\* C17: the stages run in the order direct parse, fence-stripped parse,
\* double-encoding recovery, regex recovery; a stage runs only after every
\* earlier stage failed to yield schema-valid data; and the handler accepts
\* the value of the stage that succeeded, or fails when none did.
C17_StagesInOrder ==
    /\ \A i, j \in 1..Len(stageLog) :
          i < j => IndexOf(StageOrder, stageLog[i].stage) < IndexOf(StageOrder, stageLog[j].stage)
    /\ \A i \in 1..Len(stageLog) : i < Len(stageLog) => ~stageLog[i].ok
    /\ (rpc = "responded" /\ raw # NoRaw) =>
          /\ stageLog # <<>>
          /\ stageLog[1].stage = "direct"
          /\ IF LastStage.ok
             THEN /\ reply.kind \in {"summary", "answer"}
                  /\ reply.takeaways = recovered.takeaways
                  /\ route = "summary" => recovered.takeaways = StageValue(LastStage.stage)
             ELSE /\ reply.kind \in {"error", "fixed"}
                  /\ recovered = NoValue

\* The summary handler accepted the records of the regex stage after the
\* three earlier stages had failed
C17_Witness ==
    /\ rpc = "responded"
    /\ route = "summary"
    /\ Len(stageLog) = Len(StageOrder)
    /\ LastStage.ok

\* The raw text is an array without its closing bracket that holds k complete
\* well-formed records, 4 <= k <= 6, followed by a record cut off mid-field
TruncatedArray ==
    /\ rpc = "responded"
    /\ route = "summary"
    /\ raw.form = "array"
    /\ ~raw.fence
    /\ ~raw.closed
    /\ raw.cut
    /\ Len(raw.items) >= MinTakeaways
    /\ Len(raw.items) <= MaxTakeaways
    /\ \A i \in 1..Len(raw.items) : raw.items[i] = "record"

\* C18: for such a text recoverPartialTakeaways returns exactly the k
\* complete records, in their order, and nothing of the record cut off.
C18_TruncatedArrayRecovered ==
    TruncatedArray =>
        /\ partial.called
        /\ partial.ok
        /\ partial.value = [i \in 1..Len(raw.items) |-> Takeaway(i, "record")]

\* How many takeaways of the list have a label, an insight and a timestamp
ValidCount(list) == Cardinality({i \in 1..Len(list) : list[i].valid})

\* The complete valid records found by the stage that ended the call
FoundByStage(p) ==
    IF p.stage = "doubleEncoding" THEN ValidCount(p.decoded) ELSE ValidCount(p.matched)

\* C19: recoverPartialTakeaways returns null or a list of 4 to 6 records, and
\* it returns a list exactly when the stage that produced the result found
\* at least 4 complete valid records.
C19_ListIffMinimumFound ==
    partial.called =>
        /\ partial.ok => (Len(partial.value) >= MinTakeaways /\ Len(partial.value) <= MaxTakeaways)
        /\ partial.ok <=> (FoundByStage(partial) >= MinTakeaways)

\* The raw text is plain prose
PlainProse ==
    /\ rpc = "responded"
    /\ raw # NoRaw
    /\ \/ route = "summary" /\ raw.form = "prose"
       \/ route = "chat" /\ raw.body = "prose" /\ ~raw.fence

\* The messages the handlers answer with when no stage yielded a value
FixedMessages ==
    {"Failed to generate summary", "I couldn't generate a valid response. Please try again."}

\* C20: for plain prose every stage fails, no value is accepted, and the
\* handler answers with one of its fixed messages and nothing taken from the
\* raw text.
C20_ProseFails ==
    PlainProse =>
        /\ \A i \in 1..Len(stageLog) : ~stageLog[i].ok
        /\ recovered = NoValue
        /\ reply.kind \in {"error", "fixed"}
        /\ reply.fixed \in FixedMessages
        /\ reply.takeaways = <<>>

\* The chat handler has answered a plain-prose text
C20_Witness == PlainProse /\ route = "chat" /\ reply = ChatFailure

----------------------------------------------------------------------------
(* Schema negotiation: gemini-adapter.ts, claude-adapter.ts *)

\* An absent numeric keyword (minItems, maxItems, minLength)
NoNumber == -1

\* A JSON schema, as z.toJSONSchema returns it: `type` ("none" = absent),
\* pattern ("none" = absent), minLength, enum (<<>> = absent), anyOf (<<>> =
\* absent), items (<<>> = absent, else one schema), minItems, maxItems,
\* properties (key/value pairs) and required
JsonSchema(type) ==
    [type |-> type, pattern |-> "none", minLength |-> NoNumber, enum |-> <<>>,
     anyOf |-> <<>>, items |-> <<>>, minItems |-> NoNumber, maxItems |-> NoNumber,
     properties |-> <<>>, required |-> <<>>]

\* z.string() with or without .regex(), .min(1), and z.enum(["a", "b"])
StringSchemas ==
    {[JsonSchema("string") EXCEPT !.pattern = p, !.minLength = m, !.enum = e] :
        p \in {"none", "^[0-9]+$"}, m \in {NoNumber, 1}, e \in {<<>>, <<"a", "b">>}}

\* z.number(), z.int(), z.boolean(), z.null(), z.any(), and an enum without
\* a type keyword
OtherLeaves ==
    {JsonSchema(t) : t \in {"number", "integer", "boolean", "null", "none"}}
    \cup {[JsonSchema("none") EXCEPT !.enum = <<"a", "b">>]}

LeafSchemas == StringSchemas \cup OtherLeaves

UnionMembers == {JsonSchema("string"), JsonSchema("number"), JsonSchema("null")}

\* z.union([...]) and .nullable()
UnionSchemas ==
    {[JsonSchema("none") EXCEPT !.anyOf = <<a, b>>] : a \in UnionMembers, b \in UnionMembers}

ItemSchemas ==
    {JsonSchema("string"), JsonSchema("number"),
     [JsonSchema("string") EXCEPT !.enum = <<"a", "b">>]}

\* z.array(...) with or without .min(4), .max(6)
ArraySchemas ==
    {[JsonSchema("array") EXCEPT !.items = it, !.minItems = lo, !.maxItems = hi] :
        it \in {<<>>} \cup {<<i>> : i \in ItemSchemas},
        lo \in {NoNumber, 4}, hi \in {NoNumber, 6}}

\* z.object({label: ...}), the field optional or not
ObjectSchemas ==
    {[JsonSchema("object") EXCEPT !.properties = <<[key |-> "label", value |-> v]>>,
                                   !.required = r] :
        v \in LeafSchemas \cup UnionSchemas \cup ArraySchemas,
        r \in {<<>>, <<"label">>}}

JsonSchemas == LeafSchemas \cup UnionSchemas \cup ArraySchemas \cup ObjectSchemas

\* params.zodSchema: a schema z.toJSONSchema cannot represent (it throws), or
\* one it converts to `json`
ZodSchemas ==
    {[throws |-> TRUE, json |-> <<>>]}
    \cup {[throws |-> FALSE, json |-> <<j>>] : j \in JsonSchemas}

\* A schema of the Gemini SDK
GeminiSchema(type) ==
    [type |-> type, nullable |-> FALSE, pattern |-> "none", enum |-> <<>>,
     items |-> <<>>, minItems |-> NoNumber, maxItems |-> NoNumber,
     properties |-> <<>>, required |-> <<>>]

\* schemas.filter((schema) => schema.type !== 'null')
NonNullSchemas(schemas) == SelectSeq(schemas, LAMBDA schema : schema.type # "null")

RECURSIVE convertToGeminiSchema(_)
convertToGeminiSchema(jsonSchema) ==
    LET nonNullSchemas == NonNullSchemas(jsonSchema.anyOf) IN
    IF jsonSchema.anyOf # <<>> /\ Len(nonNullSchemas) = 1
    THEN [convertToGeminiSchema(nonNullSchemas[1]) EXCEPT !.nullable = TRUE]
    ELSE IF jsonSchema.anyOf # <<>> /\ Len(nonNullSchemas) > 0
    THEN convertToGeminiSchema(nonNullSchemas[1])
    ELSE IF jsonSchema.type = "object"
    THEN [GeminiSchema("OBJECT") EXCEPT
            !.properties = [i \in 1..Len(jsonSchema.properties) |->
                               [key |-> jsonSchema.properties[i].key,
                                value |-> convertToGeminiSchema(jsonSchema.properties[i].value)]],
            !.required = jsonSchema.required]
    ELSE IF jsonSchema.type = "array"
    THEN [GeminiSchema("ARRAY") EXCEPT
            !.items = IF jsonSchema.items # <<>>
                      THEN <<convertToGeminiSchema(jsonSchema.items[1])>>
                      ELSE <<GeminiSchema("STRING")>>,
            !.minItems = jsonSchema.minItems,
            !.maxItems = jsonSchema.maxItems]
    ELSE IF jsonSchema.type = "string"
    THEN [GeminiSchema("STRING") EXCEPT !.pattern = jsonSchema.pattern]
    ELSE IF jsonSchema.type \in {"number", "integer"}
    THEN GeminiSchema("NUMBER")
    ELSE IF jsonSchema.type = "boolean"
    THEN GeminiSchema("BOOLEAN")
    ELSE IF jsonSchema.enum # <<>>
    THEN [GeminiSchema("STRING") EXCEPT !.enum = jsonSchema.enum]
    ELSE GeminiSchema("STRING")

\* buildGenerationConfig, lines 145-162: config.responseSchema, or the error
\* thrown when z.toJSONSchema throws
buildGenerationConfig(zodSchema) ==
    IF zodSchema.throws
    THEN [adapter |-> "gemini", zod |-> <<zodSchema>>, threw |-> TRUE, schema |-> <<>>]
    ELSE [adapter |-> "gemini", zod |-> <<zodSchema>>, threw |-> FALSE,
          schema |-> <<convertToGeminiSchema(zodSchema.json[1])>>]

\* callClaude, lines 56-67: options.outputFormat.schema; when z.toJSONSchema
\* throws the catch block only warns and the request goes out without
\* outputFormat
ClaudeOutputFormat(zodSchema) ==
    IF zodSchema.throws
    THEN [adapter |-> "claude", zod |-> <<zodSchema>>, threw |-> FALSE, schema |-> <<>>]
    ELSE [adapter |-> "claude", zod |-> <<zodSchema>>, threw |-> FALSE,
          schema |-> zodSchema.json]

\* The Gemini adapter builds the configuration of a request
GeminiConverts ==
    /\ conversion = NoConversion
    /\ \E zodSchema \in ZodSchemas : conversion' = buildGenerationConfig(zodSchema)
    /\ UNCHANGED <<vars, batchVars, recoveryVars>>

\* The Claude adapter builds the options of a query
ClaudeConverts ==
    /\ conversion = NoConversion
    /\ \E zodSchema \in ZodSchemas : conversion' = ClaudeOutputFormat(zodSchema)
    /\ UNCHANGED <<vars, batchVars, recoveryVars>>

\* The request is over
SchemaReset ==
    /\ conversion # NoConversion
    /\ conversion' = NoConversion
    /\ UNCHANGED <<vars, batchVars, recoveryVars>>

SchemaNext == GeminiConverts \/ ClaudeConverts \/ SchemaReset

SchemaStart == env = BareEnv /\ Init

SpecSchema == SchemaStart /\ [][SchemaNext]_allVars

----------------------------------------------------------------------------
(* Properties of the schema negotiation *)

\* The Gemini schema `converted` expresses every constraint of the JSON schema
\* `jsonSchema`: the same type, nullable exactly for "T or null", and the same
\* pattern, allowed values, element schema, array bounds, properties and
\* required list.  Several non-null alternatives, a minimum length and a type
\* outside object/array/string/number/integer/boolean/enum have no counterpart.
RECURSIVE Represents(_, _)
Represents(converted, jsonSchema) ==
    LET nonNullSchemas == NonNullSchemas(jsonSchema.anyOf) IN
    IF jsonSchema.anyOf # <<>>
    THEN /\ Len(nonNullSchemas) = 1
         /\ Len(jsonSchema.anyOf) > 1
         /\ converted.nullable
         /\ Represents([converted EXCEPT !.nullable = FALSE], nonNullSchemas[1])
    ELSE /\ ~converted.nullable
         /\ CASE jsonSchema.type = "object" ->
                   /\ converted.type = "OBJECT"
                   /\ converted.required = jsonSchema.required
                   /\ Len(converted.properties) = Len(jsonSchema.properties)
                   /\ \A i \in 1..Len(jsonSchema.properties) :
                         /\ converted.properties[i].key = jsonSchema.properties[i].key
                         /\ Represents(converted.properties[i].value,
                                       jsonSchema.properties[i].value)
              [] jsonSchema.type = "array" ->
                   /\ converted.type = "ARRAY"
                   /\ converted.minItems = jsonSchema.minItems
                   /\ converted.maxItems = jsonSchema.maxItems
                   /\ Len(converted.items) = 1
                   /\ IF jsonSchema.items = <<>>
                      THEN converted.items[1] = GeminiSchema("STRING")
                      ELSE Represents(converted.items[1], jsonSchema.items[1])
              [] jsonSchema.type = "string" ->
                   /\ converted.type = "STRING"
                   /\ converted.pattern = jsonSchema.pattern
                   /\ converted.enum = jsonSchema.enum
                   /\ jsonSchema.minLength = NoNumber
              [] jsonSchema.type = "number" -> converted.type = "NUMBER"
              [] jsonSchema.type = "integer" -> converted.type = "INTEGER"
              [] jsonSchema.type = "boolean" -> converted.type = "BOOLEAN"
              [] jsonSchema.type = "none" /\ jsonSchema.enum # <<>> ->
                   converted.type = "STRING" /\ converted.enum = jsonSchema.enum
              [] OTHER -> FALSE

\* C24: a conversion either fails with the schema-conversion error or hands
\* the backend a schema that expresses every constraint of the input: the
\* Gemini schema represents the JSON schema, the Claude output format is the
\* JSON schema itself; a schema with a construct that cannot be represented
\* is never converted.
C24_UnrepresentableFails ==
    (conversion # NoConversion /\ ~conversion.threw) =>
        /\ ~conversion.zod[1].throws
        /\ conversion.schema # <<>>
        /\ conversion.adapter = "gemini" =>
              Represents(conversion.schema[1], conversion.zod[1].json[1])
        /\ conversion.adapter = "claude" => conversion.schema = conversion.zod[1].json

\* The string-enum fields of the JSON schema given to the Gemini adapter
RECURSIVE EnumFieldsKept(_, _)
EnumFieldsKept(converted, jsonSchema) ==
    /\ (jsonSchema.type = "string" /\ jsonSchema.enum # <<>>) =>
          (converted.type = "STRING" /\ converted.enum = jsonSchema.enum)
    /\ (jsonSchema.type = "object" /\ converted.type = "OBJECT") =>
          \A i \in 1..Len(jsonSchema.properties) :
              EnumFieldsKept(converted.properties[i].value, jsonSchema.properties[i].value)
    /\ (jsonSchema.type = "array" /\ converted.type = "ARRAY" /\ jsonSchema.items # <<>>) =>
          EnumFieldsKept(converted.items[1], jsonSchema.items[1])

\* C25: every string-enum field (type string with a list of allowed values)
\* converts to a Gemini schema of type string whose enum is exactly the
\* field's list of allowed values.
C25_StringEnumKept ==
    (conversion.adapter = "gemini" /\ ~conversion.threw) =>
        EnumFieldsKept(conversion.schema[1], conversion.zod[1].json[1])

\* C29: when the JSON-string branch of recoverPartialTakeaways decoded fewer
\* than 4 valid items and the regex scan ran, every record of the returned
\* list was matched by the scan, no decoded item is in the list, and the scan
\* alone matched at least 4 records.
C29_DecodedItemsDiscarded ==
    (partial.called /\ partial.stage = "regex" /\ partial.ok) =>
        /\ Range(partial.value) \subseteq Range(partial.matched)
        /\ Range(partial.value) \cap Range(partial.decoded) = {}
        /\ Len(partial.matched) >= MinTakeaways

----------------------------------------------------------------------------
(* Properties of the handlers' use of the model *)

\* C21: a handler invocation places exactly one generation request, whatever
\* the parse stages make of the response: from the call of generateAIResponse
\* until the handler has answered, the number of calls placed is one, whether
\* the first stage, a later stage or no stage accepted the text.
C21_OneGenerationPerInvocation ==
    /\ rpc = "idle" => genCalls = 0
    /\ rpc \in {"awaiting", "responded"} => genCalls = 1

\* A handler has answered with its failure reply after every stage
\* rejected the text
C21_Witness ==
    /\ rpc = "responded"
    /\ reply \in {SummaryFailure, ChatFailure}
    /\ stageLog # <<>>
    /\ ~stageLog[Len(stageLog)].ok
    /\ genCalls = 1

\* The category messages of the handlers
CategoryMessages ==
    {"Failed to generate summary", "Failed to generate image",
     "The AI service is currently at capacity. Please wait a moment and try again.",
     "There's a configuration issue with the AI service. Please try again later.",
     "I had trouble formatting my response. Please try rephrasing your question.",
     "The request took too long. Please try again with a shorter question.",
     "I apologize, but I'm having trouble processing your request right now. Please try again in a moment."}

\* C22: when the generation failed, the handler's answer carries one of the
\* category messages and no part of the error's message.
C22_NoBackendErrorText ==
    (rpc = "responded" /\ genError # NoError) =>
        /\ reply.fixed \in CategoryMessages
        /\ reply.details = NoDetails

\* The backend requests a call may make: one per model of the primary
\* adapter's cascade and one per model of the fallback adapter's
MaxAttempts ==
    Len(ModelCascade(primaryKey))
    + (IF fallbackKey = "none" THEN 0 ELSE Len(ModelCascade(fallbackKey)))

\* C30: a generateStructuredContent call makes at most
\* |cascade(primary)| + |cascade(fallback)| = 3 + 3 backend requests, and,
\* every backend request eventually returning or failing, a call that awaits
\* a request eventually returns a result or raises an error.
C30_TerminatesWithinBound ==
    /\ [](Len(attempts) <= MaxAttempts /\ MaxAttempts <= 3 + 3)
    /\ (pc \in {"primary", "fallback"}) ~> (pc = "done")

\* The call is over after three requests to the primary adapter's models
\* and three to the fallback adapter's
C30_Witness ==
    /\ pc = "done"
    /\ Len(attempts) = 6
    /\ outcome.status \in {"returned", "threw"}

----------------------------------------------------------------------------
(* Properties of the batch dispatcher's output array *)

\* The chunk whose index range holds slot i (slots counted from 1)
ChunkOfSlot(i) == (i - 1) \div CHUNK_SIZE

\* C28: whatever number of items the backend returns for a chunk, the
\* output array keeps its N slots, every slot of a processed chunk's range
\* [k*C, min((k+1)*C, N)) is filled, and no slot outside the ranges of the
\* processed chunks has been written.
C28_WritesOwnRangeOnly ==
    bphase # "idle" =>
        /\ Len(results) = nTexts
        /\ \A i \in 1..Len(results) :
              (results[i] # Hole) <=> (ChunkOfSlot(i) \in Range(doneLog))

\* The model the adapter `key` is documented to start with for params.model
DocumentedStart(key, preferred) ==
    IF preferred \in Range(ModelCascade(key)) THEN preferred ELSE ModelCascade(key)[1]

\* attempts[i] is the first request of an adapter's generate
FirstOfAdapter(i) == i = 1 \/ attempts[i - 1].provider # attempts[i].provider

\* C26: the first request of an adapter's generate goes to the preferred
\* model when that model is in the adapter's cascade and to the cascade's
\* first model otherwise; so a fallback adapter that is handed the primary
\* adapter's model name starts at its own first model.
C26_StartsAtPreferredOrFirst ==
    \A i \in 1..Len(attempts) :
        (attempts[i].provider \in SourceAdapters /\ FirstOfAdapter(i)) =>
            attempts[i].model = DocumentedStart(attempts[i].provider, req.model)

\* The model that produced the output of the latest request: the one the
\* backend's response names, else the one the request was sent to
Producer ==
    IF lastReported # "none" THEN lastReported ELSE attempts[Len(attempts)].model

\* C27: the model recorded in a successful result is the model that produced
\* the output, that is the model of the last attempt (or the name the backend
\* gave for it in its response): after a cascade it is not the requested model
\* nor an earlier, failed one.
C27_ResultModelIsProducer ==
    (outcome.status = "returned" /\ outcome.result.provider \in SourceAdapters) =>
        /\ attempts # <<>>
        /\ attempts[Len(attempts)].provider = outcome.result.provider
        /\ outcome.result.model = Producer
        /\ lastReported = "none" =>
              \A i \in 1..(Len(attempts) - 1) : outcome.result.model # attempts[i].model

\* The requested model failed, the adapter cascaded, and the next model
\* produced the output
C27_Witness ==
    /\ outcome.status = "returned"
    /\ outcome.result.provider \in SourceAdapters
    /\ Len(attempts) = 2
    /\ attempts[1].provider = attempts[2].provider
    /\ attempts[1].model = req.model
    /\ outcome.result.model = attempts[2].model
    /\ outcome.result.model # req.model

\* Gemini started at the preferred gemini-3-flash, and the fallback Claude,
\* handed the same name, started at its first model
C26_Witness ==
    /\ pc = "fallback"
    /\ req.model = GeminiCascade[2]
    /\ attempts[1] = Attempt("gemini", GeminiCascade[2])
    /\ attempts[Len(attempts)] = Attempt("claude", ClaudeCascade[1])

\* C23: within one generateStructuredContent call at most one backend request
\* is in flight at any time: an attempt starts only after the previous request
\* has ended or, on deadline expiry, has been aborted.
C23_OneBackendCallInFlight == backendCalls <= 1

====
